---- MODULE Spec2Model ----
(***************************************************************************)
(* State-machine model of the ngrx-json-api service facade                 *)
(* (src/src/services.ts): NgrxJsonApiServiceV2 and the store it dispatches *)
(* into.  The facade's own code (findOne's result mapping, the handles'    *)
(* unsubscribe, the snapshot getters, the store subscription set up by the *)
(* constructor) is translated from services.ts.  The reducer, the          *)
(* selectors and the commit effect live in other files of the repository   *)
(* (reducers, selectors, effects); they are modelled from the design       *)
(* document and are marked so where they are defined.                      *)
(***************************************************************************)
EXTENDS Integers, Sequences, FiniteSets, TLC

\* ------------------------------------------------------------------ bounds
MaxVal == 2          \* attribute values are 1..MaxVal
MaxUnsubscribe == 2  \* times a consumer calls the unsubscribe of one handle

\* ------------------------------------------------------------- value space
Null == [sentinel |-> "null"]            \* the absent value the getters return
Undefined == [sentinel |-> "undefined"]  \* a field that was never assigned
TypeError == [sentinel |-> "TypeError"]  \* the outcome of a property read on undefined

Types == {"article"}             \* resource types held by the store
Ids == {"1", "2"}                \* resource ids held by the store
LookupTypes == Types \cup {"comment"}   \* types a consumer may ask for
LookupIds == Ids \cup {"9"}             \* ids a consumer may ask for
Vals == 1..MaxVal
Fields == {"a", "b"}             \* the attributes of a resource
QueryIds == {"q1", "q2"}
Filters == {"all"} \cup Ids      \* a query matches every article, or one id
Handles == {"h1", "h2"}          \* the query handles consumers obtain

Resource(t, i, a, b) == [type |-> t, id |-> i, a |-> a, b |-> b]
Resources == [type : Types, id : Ids, a : Vals, b : Vals]
\* what the remote answers a read with: one body per value
ServerResources == {r \in Resources : r.a = r.b}
\* the partial attribute sets a consumer patches with (one field at a time)
Partials == UNION {[{f} -> Vals] : f \in Fields}
NoFields == [f \in {} |-> 1]

\* --------------------------------------------------------------- variables
VARIABLES
    data,           \* NgrxJsonApiStore.data: type -> entries in insertion order
    queries,        \* NgrxJsonApiStore.queries: the registered queries
    pending,        \* the pending change records, in staging order
    storeSnapshot,  \* NgrxJsonApiServiceV2.storeSnapshot
    handles,        \* the ResourceQueryHandles handed out so far
    emitted,        \* what each handle's results stream emitted in the last step
    readsInFlight,  \* query ids whose read request is at the remote
    inflight,       \* the commit batch at the remote, or <<>> when none is
    commitQueued,   \* a commit() was called while a batch was in flight
    lastOp          \* the operation the last step performed, its argument and
                    \* what the commit's error channel carried in it

vars == <<data, queries, pending, storeSnapshot, handles, emitted,
          readsInFlight, inflight, commitQueued, lastOp>>

\* ---------------------------------------------------------------- helpers
Range(s) == {s[i] : i \in 1..Len(s)}

RECURSIVE SelectSeq2(_, _)
\* the subsequence of s whose elements are in the set keep
SelectSeq2(s, keep) ==
    IF s = <<>> THEN <<>>
    ELSE IF Head(s) \in keep THEN <<Head(s)>> \o SelectSeq2(Tail(s), keep)
    ELSE SelectSeq2(Tail(s), keep)

\* the entries of one type, <<>> when the store has no bucket for the type
Bucket(d, t) == IF t \in DOMAIN d THEN d[t] ELSE <<>>

HasEntry(d, t, i) == \E e \in Range(Bucket(d, t)) : e.id = i

EntryOf(d, t, i) == CHOOSE e \in Range(Bucket(d, t)) : e.id = i

\* d with the bucket of type t replaced by b
WithBucket(d, t, b) == [u \in (DOMAIN d) \cup {t} |-> IF u = t THEN b ELSE d[u]]

\* an entry that is replaced moving to the end of its bucket
PutEntryLast(d, t, i, e) ==
    LET b == Bucket(d, t) IN
    WithBucket(d, t, Append(SelectSeq2(b, {x \in Range(b) : x.id # i}), e))

\* the entry of (t, i) replaced in place, or appended when there is none
PutEntry(d, t, i, e) ==
    LET b == Bucket(d, t) IN
    IF HasEntry(d, t, i)
    THEN WithBucket(d, t, [k \in 1..Len(b) |-> IF b[k].id = i THEN e ELSE b[k]])
    ELSE WithBucket(d, t, Append(b, e))

DropEntry(d, t, i) ==
    WithBucket(d, t, SelectSeq2(Bucket(d, t), {e \in Range(Bucket(d, t)) : e.id # i}))

\* the fields of partial p written over resource r
Merge(r, p) ==
    [r EXCEPT !.a = IF "a" \in DOMAIN p THEN p["a"] ELSE @,
              !.b = IF "b" \in DOMAIN p THEN p["b"] ELSE @]

\* partial q applied after partial p
MergePartial(p, q) ==
    [f \in (DOMAIN p) \cup (DOMAIN q) |-> IF f \in DOMAIN q THEN q[f] ELSE p[f]]

\* the attributes of resource r, as a pending record carries them
Attrs(r) == [f \in Fields |-> r[f]]

\* ------------------------------------------------- the snapshot getters
\* getResourceSnapshot reading the persisted resource of the entry
getResourceSnapshotPersisted(snapshot, identifier) ==
    IF snapshot = Undefined THEN TypeError
    ELSE IF /\ identifier.type \in DOMAIN snapshot.data
            /\ HasEntry(snapshot.data, identifier.type, identifier.id)
    THEN EntryOf(snapshot.data, identifier.type, identifier.id).persistedResource
    ELSE Null

\* services.ts 137-143
getResourceSnapshot(snapshot, identifier) ==
    IF snapshot = Undefined THEN TypeError
    ELSE IF /\ identifier.type \in DOMAIN snapshot.data
            /\ HasEntry(snapshot.data, identifier.type, identifier.id)
    THEN EntryOf(snapshot.data, identifier.type, identifier.id).resource
    ELSE Null

\* getPersistedResourceSnapshot reading a field the entry does not have
getPersistedResourceSnapshotNoField(snapshot, identifier) ==
    IF snapshot = Undefined THEN TypeError
    ELSE IF /\ identifier.type \in DOMAIN snapshot.data
            /\ HasEntry(snapshot.data, identifier.type, identifier.id)
    THEN Undefined
    ELSE Null

\* services.ts 151-157
getPersistedResourceSnapshot(snapshot, identifier) ==
    IF snapshot = Undefined THEN TypeError
    ELSE IF /\ identifier.type \in DOMAIN snapshot.data
            /\ HasEntry(snapshot.data, identifier.type, identifier.id)
    THEN EntryOf(snapshot.data, identifier.type, identifier.id).persistedResource
    ELSE Null

Identifiers == [type : LookupTypes, id : LookupIds]

\* ---------------------------------------------------------------------------
\* The store behind the facade.  services.ts only dispatches actions into it;
\* the reducer that consumes them is in another file of the repository and is
\* modelled here from the design document (sections 3 and 4).
\* A store state is a record [data, queries, pending].
\* ---------------------------------------------------------------------------
NoQuery == [sentinel |-> "noquery"]

StoreState(d, q, p) == [data |-> d, queries |-> q, pending |-> p]

HasPending(p, t, i) == \E r \in Range(p) : r.type = t /\ r.id = i

PendingOf(p, t, i) == CHOOSE r \in Range(p) : r.type = t /\ r.id = i

PendingRecord(kind, t, i, body) == [kind |-> kind, type |-> t, id |-> i, body |-> body]

\* the records of (t, i) replaced in place by rec
ReplacePending(p, t, i, rec) ==
    [k \in 1..Len(p) |-> IF p[k].type = t /\ p[k].id = i THEN rec ELSE p[k]]

DropPending(p, t, i) ==
    SelectSeq2(p, {r \in Range(p) : ~(r.type = t /\ r.id = i)})

\* the record of (t, i) becomes rec: merged into the existing one, else appended
StageRecord(p, t, i, rec) ==
    IF HasPending(p, t, i) THEN ReplacePending(p, t, i, rec) ELSE Append(p, rec)

\* upsertPersisted writing the read result over the current state as well
upsertPersistedOverwriting(st, r) ==
    [st EXCEPT !.data = PutEntry(st.data, r.type, r.id,
                            [id |-> r.id, resource |-> r, persistedResource |-> r])]

\* section 4.1 upsertPersisted
upsertPersisted(st, r) ==
    LET t == r.type
        i == r.id
        e == IF HasEntry(st.data, t, i)
             THEN [EntryOf(st.data, t, i) EXCEPT
                     !.persistedResource = r,
                     !.resource = IF HasPending(st.pending, t, i) THEN @ ELSE r]
             ELSE [id |-> i, resource |-> r, persistedResource |-> r]
    IN  [st EXCEPT !.data = PutEntry(st.data, t, i, e)]

RECURSIVE upsertAll(_, _)
\* a read result landing: every returned resource is upserted, in order
upsertAll(st, rs) ==
    IF rs = <<>> THEN st ELSE upsertAll(upsertPersisted(st, Head(rs)), Tail(rs))

\* sections 3 and 4.3 stageCreate (PostStoreResourceAction)
stageCreate(st, r) ==
    LET t == r.type
        i == r.id
        e == [id |-> i, resource |-> r,
              persistedResource |-> IF HasEntry(st.data, t, i)
                                    THEN EntryOf(st.data, t, i).persistedResource
                                    ELSE Null]
    IN  [st EXCEPT !.data = PutEntry(st.data, t, i, e),
                   !.pending = StageRecord(st.pending, t, i,
                                           PendingRecord("Create", t, i, Attrs(r)))]

\* sections 3 and 4.3 stagePatch (PatchStoreResourceAction)
stagePatch(st, t, i, partial) ==
    IF ~HasEntry(st.data, t, i) THEN st
    ELSE LET e == EntryOf(st.data, t, i)
             e2 == [e EXCEPT !.resource = Merge(e.resource, partial)]
             old == IF HasPending(st.pending, t, i)
                    THEN PendingOf(st.pending, t, i)
                    ELSE PendingRecord("Patch", t, i, NoFields)
         IN  IF old.kind = "Delete" THEN st
             ELSE [st EXCEPT
                     !.data = PutEntry(st.data, t, i, e2),
                     !.pending = StageRecord(st.pending, t, i,
                                      [old EXCEPT !.body = MergePartial(old.body, partial)])]

\* sections 3 and 4.3 stageDelete (DeleteStoreResourceAction)
stageDelete(st, t, i) ==
    IF ~HasEntry(st.data, t, i) THEN st
    ELSE IF /\ HasPending(st.pending, t, i)
            /\ PendingOf(st.pending, t, i).kind = "Create"
            /\ EntryOf(st.data, t, i).persistedResource = Null
    THEN [st EXCEPT !.data = DropEntry(st.data, t, i),
                    !.pending = DropPending(st.pending, t, i)]
    ELSE [st EXCEPT !.pending = StageRecord(st.pending, t, i,
                                            PendingRecord("Delete", t, i, NoFields))]

\* DeleteFromStateAction: the resource is evicted from the resource store;
\* the pending records are the commit's to clear (section 5), so the record
\* of an evicted resource stays
deleteStoreResources(st, t, i) ==
    IF ~HasEntry(st.data, t, i) THEN st
    ELSE [st EXCEPT !.data = DropEntry(st.data, t, i)]

\* section 4.1 promoteOnCommitSuccess, for the record rec of the acknowledged batch
promoteOnCommitSuccess(st, rec) ==
    LET t == rec.type
        i == rec.id
        d == IF ~HasEntry(st.data, t, i) THEN st.data
             ELSE IF rec.kind = "Delete" THEN DropEntry(st.data, t, i)
             ELSE PutEntry(st.data, t, i,
                      [EntryOf(st.data, t, i) EXCEPT
                          !.persistedResource = EntryOf(st.data, t, i).resource])
    IN  [st EXCEPT !.data = d, !.pending = DropPending(st.pending, t, i)]

RECURSIVE promoteEvery(_, _, _)
\* every identifier of the batch promoted, whatever the remote reported
promoteEvery(st, batch, ok) ==
    IF batch = <<>> THEN st
    ELSE promoteEvery(promoteOnCommitSuccess(st, Head(batch)), Tail(batch), ok)

RECURSIVE promoteAll(_, _, _)
\* section 4.4: the identifiers in ok are promoted, the others are left pending
promoteAll(st, batch, ok) ==
    IF batch = <<>> THEN st
    ELSE promoteAll(IF <<Head(batch).type, Head(batch).id>> \in ok
                    THEN promoteOnCommitSuccess(st, Head(batch)) ELSE st,
                    Tail(batch), ok)

\* section 4.2: ApiReadInitAction registers the query it carries
registerQuery(st, query) ==
    [st EXCEPT !.queries[query.queryId] =
                   [queryType |-> query.queryType, filter |-> query.filter]]

\* section 4.2 removeQuery (RemoveQueryAction): a no-op when not registered
deregisterQuery(st, queryId) ==
    [st EXCEPT !.queries[queryId] = NoQuery]

Matches(filter, r) == filter = "all" \/ r.id = filter

\* section 4.2 QueryResolver: the matching entries, in insertion order
QueryResolver(st, filter) ==
    LET b == Bucket(st.data, "article") IN
    SelectSeq2(b, {e \in Range(b) : Matches(filter, e.resource)})

\* ---------------------------------------------------------------------------
\* The facade: NgrxJsonApiServiceV2 (services.ts 75-233)
\* ---------------------------------------------------------------------------
NoEmission == [kind |-> "none"]
Value(v) == [kind |-> "value", value |-> v]
Error(m) == [kind |-> "error", error |-> m]

\* a handle: the kind of call that made it, the query id its closures hold,
\* whether its results stream is subscribed, ended with an error or not yet
\* made, and how often its unsubscribe was called
NoHandle == [status |-> "none", kind |-> "none", queryId |-> "none", unsubscribed |-> 0]

Store == StoreState(data, queries, pending)

\* the selector behind selectResults: the resources of the query's result
\* identifiers; a query id that is not registered has no result to emit
getResults(st, queryId) ==
    IF st.queries[queryId] = NoQuery THEN <<>>
    ELSE LET es == QueryResolver(st, st.queries[queryId].filter)
         IN  [k \in 1..Len(es) |-> es[k].resource]

\* services.ts 165-167
selectResults(st, queryId) == getResults(st, queryId)

\* findOne's mapping taking the first of several results
findOneMapFirst(it) ==
    IF Len(it) = 0 THEN Value(Null) ELSE Value(it[1])

\* services.ts 99-106: the mapping findOne applies to every emission
findOneMap(it) ==
    IF Len(it) = 0 THEN Value(Null)
    ELSE IF Len(it) = 1 THEN Value(it[1])
    ELSE Error("Unique result expected")

\* what the results stream of handle h emits when the store goes to st2
\* (services.ts 98-109 and 115-118: results is the selection of the handle's
\* query id, and nothing in the handle ever ends that selection)
Emission(h, hs, st2, notify) ==
    IF hs[h].status # "live" \/ ~notify \/ st2.queries[hs[h].queryId] = NoQuery
    THEN NoEmission
    ELSE IF hs[h].kind = "findOne"
    THEN findOneMap(selectResults(st2, hs[h].queryId))
    ELSE Value(selectResults(st2, hs[h].queryId))

\* store.dispatch with the constructor's subscription left at the state
\* from before the action
DispatchLagging(st2, hs2, fresh, op) ==
    LET changed == st2.data # data \/ st2.queries # queries
        em == [h \in Handles |-> Emission(h, hs2, st2, changed \/ h \in fresh)]
    IN  /\ data' = st2.data
        /\ queries' = st2.queries
        /\ pending' = st2.pending
        /\ storeSnapshot' = [data |-> data]
        /\ emitted' = em
        /\ handles' = [h \in Handles |->
                         IF em[h].kind = "error"
                         THEN [hs2[h] EXCEPT !.status = "errored"] ELSE hs2[h]]
        /\ lastOp' = op

\* store.dispatch: the store takes its next state st2, the subscription set
\* up by the constructor (services.ts 91) refreshes storeSnapshot, and every
\* results stream that is still subscribed emits; a stream whose mapping
\* throws ends with that error
Dispatch(st2, hs2, fresh, op) ==
    LET changed == st2.data # data \/ st2.queries # queries
        em == [h \in Handles |-> Emission(h, hs2, st2, changed \/ h \in fresh)]
    IN  /\ data' = st2.data
        /\ queries' = st2.queries
        /\ pending' = st2.pending
        /\ storeSnapshot' = [data |-> st2.data]
        /\ emitted' = em
        /\ handles' = [h \in Handles |->
                         IF em[h].kind = "error"
                         THEN [hs2[h] EXCEPT !.status = "errored"] ELSE hs2[h]]
        /\ lastOp' = op

Op(name, arg) == [op |-> name, arg |-> arg, error |-> "none", failed |-> {}]

\* removeQuery dispatching an action that clears the whole registry
removeQueryAll(st, queryId) == [st EXCEPT !.queries = [q \in QueryIds |-> NoQuery]]

\* services.ts 121-123
removeQuery(st, queryId) == deregisterQuery(st, queryId)

\* services.ts 125-130: ApiReadInitAction for the query
findInternal(st, query) == registerQuery(st, query)

Query(queryId, queryType, filter) ==
    [queryId |-> queryId, queryType |-> queryType, filter |-> filter]

\* services.ts 94-110
findOne(h, queryId, filter) ==
    LET query == Query(queryId, "getOne", filter) IN
    /\ handles[h].status = "none"
    /\ readsInFlight' = readsInFlight \cup {queryId}
    /\ Dispatch(findInternal(Store, query),
                [handles EXCEPT ![h] = [status |-> "live", kind |-> "findOne",
                                        queryId |-> queryId, unsubscribed |-> 0]],
                {h}, Op("findOne", h))
    /\ UNCHANGED <<inflight, commitQueued>>

\* services.ts 112-119
findMany(h, queryId, filter) ==
    LET query == Query(queryId, "getMany", filter) IN
    /\ handles[h].status = "none"
    /\ readsInFlight' = readsInFlight \cup {queryId}
    /\ Dispatch(findInternal(Store, query),
                [handles EXCEPT ![h] = [status |-> "live", kind |-> "findMany",
                                        queryId |-> queryId, unsubscribed |-> 0]],
                {h}, Op("findMany", h))
    /\ UNCHANGED <<inflight, commitQueued>>

\* services.ts 108 and 117: the handle's unsubscribe
unsubscribe(h) ==
    /\ handles[h].status # "none"
    /\ handles[h].unsubscribed < MaxUnsubscribe
    /\ Dispatch(removeQuery(Store, handles[h].queryId),
                [handles EXCEPT ![h].unsubscribed = @ + 1],
                {}, Op("unsubscribe", h))
    /\ UNCHANGED <<readsInFlight, inflight, commitQueued>>

\* the remote answers a read: the resources it returns match the query
ReadAnswers(filter) ==
    {rs \in UNION {[1..n -> ServerResources] : n \in 0..Cardinality(Ids)} :
        /\ \A k \in 1..Len(rs) : Matches(filter, rs[k])
        /\ \A k, l \in 1..Len(rs) : k < l => rs[k].id # rs[l].id}

\* the read effect: the answer of the remote lands in the store; the answer
\* to a query that was removed meanwhile is discarded (section 5)
ReadSuccess(queryId, rs) ==
    /\ queryId \in readsInFlight
    /\ readsInFlight' = readsInFlight \ {queryId}
    /\ IF queries[queryId] = NoQuery
       THEN rs = <<>> /\ Dispatch(Store, handles, {}, Op("readSuccess", queryId))
       ELSE /\ rs \in ReadAnswers(queries[queryId].filter)
            /\ Dispatch(upsertAll(Store, rs), handles, {}, Op("readSuccess", queryId))
    /\ UNCHANGED <<inflight, commitQueued>>

\* postResource dispatching the patch action
postResourceAsPatch(r) ==
    /\ Dispatch(stagePatch(Store, r.type, r.id, Attrs(r)), handles, {},
                Op("postResource", r))
    /\ UNCHANGED <<readsInFlight, inflight, commitQueued>>

\* services.ts 213-215
postResource(r) ==
    /\ Dispatch(stageCreate(Store, r), handles, {}, Op("postResource", r))
    /\ UNCHANGED <<readsInFlight, inflight, commitQueued>>

\* patchResource dispatching the delete action
patchResourceAsDelete(t, i, partial) ==
    /\ Dispatch(stageDelete(Store, t, i), handles, {},
                Op("patchResource", <<t, i, partial>>))
    /\ UNCHANGED <<readsInFlight, inflight, commitQueued>>

\* patchResource sending the staged records to the remote at once
patchResourceAndCommit(t, i, partial) ==
    LET st2 == stagePatch(Store, t, i, partial) IN
    /\ inflight' = IF inflight # <<>> THEN inflight ELSE st2.pending
    /\ Dispatch(st2, handles, {}, Op("patchResource", <<t, i, partial>>))
    /\ UNCHANGED <<readsInFlight, commitQueued>>

\* services.ts 202-204
patchResource(t, i, partial) ==
    /\ Dispatch(stagePatch(Store, t, i, partial), handles, {},
                Op("patchResource", <<t, i, partial>>))
    /\ UNCHANGED <<readsInFlight, inflight, commitQueued>>

\* deleteResource always dispatching a plain mark-for-deletion
deleteResourceMarkOnly(t, i) ==
    /\ Dispatch([Store EXCEPT !.pending =
                    IF HasEntry(data, t, i)
                    THEN StageRecord(pending, t, i, PendingRecord("Delete", t, i, NoFields))
                    ELSE pending],
                handles, {}, Op("deleteResource", <<t, i>>))
    /\ UNCHANGED <<readsInFlight, inflight, commitQueued>>

\* services.ts 222-224
deleteResource(t, i) ==
    /\ Dispatch(stageDelete(Store, t, i), handles, {}, Op("deleteResource", <<t, i>>))
    /\ UNCHANGED <<readsInFlight, inflight, commitQueued>>

\* the identifiers of a batch
BatchIds(batch) == {<<batch[k].type, batch[k].id>> : k \in 1..Len(batch)}

\* the batch that goes to the remote once the one in flight is answered:
\* a commit() made meanwhile was queued behind it (section 4.4)
NextBatch(st2) == IF commitQueued THEN st2.pending ELSE <<>>

\* commit dropping the pending records as it sends them
commitClearing ==
    /\ inflight' = IF inflight # <<>> THEN inflight ELSE pending
    /\ commitQueued' = (inflight # <<>>)
    /\ Dispatch([Store EXCEPT !.pending = <<>>], handles, {},
                Op("commit", IF inflight # <<>> THEN "queued"
                             ELSE IF pending = <<>> THEN "noop" ELSE "sent"))
    /\ UNCHANGED readsInFlight

\* commit promoting the records as it sends them, ahead of the answer
commitPromoting ==
    /\ inflight' = IF inflight # <<>> THEN inflight ELSE pending
    /\ commitQueued' = (inflight # <<>>)
    /\ Dispatch(IF inflight # <<>> THEN Store
                ELSE promoteAll(Store, pending, BatchIds(pending)),
                handles, {},
                Op("commit", IF inflight # <<>> THEN "queued"
                             ELSE IF pending = <<>> THEN "noop" ELSE "sent"))
    /\ UNCHANGED readsInFlight

\* commit surfacing an error when there is nothing to send
commitFailingEmpty ==
    /\ inflight' = IF inflight # <<>> THEN inflight ELSE pending
    /\ commitQueued' = (inflight # <<>>)
    /\ Dispatch(Store, handles, {},
                [Op("commit", IF inflight # <<>> THEN "queued"
                              ELSE IF pending = <<>> THEN "noop" ELSE "sent")
                    EXCEPT !.error = IF pending = <<>> THEN "TransportError" ELSE "none"])
    /\ UNCHANGED readsInFlight

\* services.ts 229-232: ApiCommitInitAction; section 4.4 for what it starts
commit ==
    /\ inflight' = IF inflight # <<>> THEN inflight ELSE pending
    /\ commitQueued' = (inflight # <<>>)
    /\ Dispatch(Store, handles, {},
                Op("commit", IF inflight # <<>> THEN "queued"
                             ELSE IF pending = <<>> THEN "noop" ELSE "sent"))
    /\ UNCHANGED readsInFlight

\* section 4.4: the remote acknowledges the identifiers in ok and reports a
\* failure for every other identifier of the batch
CommitResponse(ok) ==
    /\ inflight # <<>>
    /\ ok \subseteq BatchIds(inflight)
    /\ LET st2 == promoteAll(Store, inflight, ok) IN
         /\ inflight' = NextBatch(st2)
         /\ commitQueued' = FALSE
         /\ Dispatch(st2, handles, {},
                     [op |-> "commitResponse", arg |-> ok,
                      error |-> IF ok = BatchIds(inflight) THEN "none"
                                ELSE "RemoteOperationError",
                      failed |-> BatchIds(inflight) \ ok])
    /\ UNCHANGED readsInFlight

CommitSuccess == CommitResponse(BatchIds(inflight))

CommitPartialFailure == \E ok \in SUBSET BatchIds(inflight) :
    ok # BatchIds(inflight) /\ CommitResponse(ok)

\* section 4.4: the remote could not be reached
CommitTransportFailure ==
    /\ inflight # <<>>
    /\ inflight' = NextBatch(Store)
    /\ commitQueued' = FALSE
    /\ Dispatch(Store, handles, {},
                [op |-> "commitTransportFailure", arg |-> {},
                 error |-> "TransportError", failed |-> {}])
    /\ UNCHANGED readsInFlight

\* services.ts 91: the store hands its state to the subscription the
\* constructor made
StoreEmit ==
    /\ storeSnapshot = Undefined
    /\ storeSnapshot' = [data |-> data]
    /\ emitted' = [h \in Handles |-> NoEmission]
    /\ lastOp' = Op("storeEmit", "none")
    /\ UNCHANGED <<data, queries, pending, handles, readsInFlight, inflight, commitQueued>>

\* services.ts 82-92: the service as constructed; storeSnapshot has no
\* initializer and is assigned only by the subscription callback, so it holds
\* the store's state if the store emitted on subscription and is undefined if
\* the store has not emitted yet
Init ==
    /\ data = [t \in {} |-> <<>>]
    /\ queries = [q \in QueryIds |-> NoQuery]
    /\ pending = <<>>
    /\ storeSnapshot \in {Undefined, [data |-> data]}
    /\ handles = [h \in Handles |-> NoHandle]
    /\ emitted = [h \in Handles |-> NoEmission]
    /\ readsInFlight = {}
    /\ inflight = <<>>
    /\ commitQueued = FALSE
    /\ lastOp = Op("constructor", "none")

Next ==
    \/ StoreEmit
    \/ \E h \in Handles, q \in QueryIds, f \in Filters : findOne(h, q, f)
    \/ \E h \in Handles, q \in QueryIds, f \in Filters : findMany(h, q, f)
    \/ \E h \in Handles : unsubscribe(h)
    \/ \E q \in readsInFlight : \E rs \in ReadAnswers("all") : ReadSuccess(q, rs)
    \/ \E r \in Resources : postResource(r)
    \/ \E t \in Types, i \in Ids, p \in Partials : patchResource(t, i, p)
    \/ \E t \in Types, i \in Ids : deleteResource(t, i)
    \/ commit
    \/ CommitSuccess
    \/ CommitPartialFailure
    \/ CommitTransportFailure

Spec == Init /\ [][Next]_vars

\* services.ts 49-51: NgrxJsonApiService.read, a read without a handle
read(queryId, filter) ==
    /\ readsInFlight' = readsInFlight \cup {queryId}
    /\ Dispatch(findInternal(Store, Query(queryId, "getMany", filter)), handles, {},
                Op("read", queryId))
    /\ UNCHANGED <<inflight, commitQueued>>

\* deleteFromState evicting the resource together with its pending record
deleteFromStateClearing(t, i) ==
    /\ Dispatch([deleteStoreResources(Store, t, i) EXCEPT
                    !.pending = DropPending(pending, t, i)],
                handles, {}, Op("deleteFromState", <<t, i>>))
    /\ UNCHANGED <<readsInFlight, inflight, commitQueued>>

\* services.ts 61-63: NgrxJsonApiService.deleteFromState
deleteFromState(t, i) ==
    /\ Dispatch(deleteStoreResources(Store, t, i), handles, {},
                Op("deleteFromState", <<t, i>>))
    /\ UNCHANGED <<readsInFlight, inflight, commitQueued>>

\* the query side of the service: handles, reads and the edits that change
\* what a query matches
NextQuery ==
    \/ StoreEmit
    \/ \E h \in Handles, q \in QueryIds, f \in Filters : findOne(h, q, f)
    \/ \E h \in Handles, q \in QueryIds, f \in Filters : findMany(h, q, f)
    \/ \E h \in Handles : unsubscribe(h)
    \/ \E q \in readsInFlight : \E rs \in ReadAnswers("all") : ReadSuccess(q, rs)

SpecQuery == Init /\ [][NextQuery]_vars

\* what the consumers of the staging and commit runs post and patch with,
\* and what the remote answers their reads with
CommitPosts == {r \in Resources : r.a = 1 /\ r.b = 1}
CommitPartials == [{"a"} -> {MaxVal}]
StagePartials == UNION {[{f} -> {MaxVal}] : f \in Fields}
StageAnswers == {rs \in ReadAnswers("all") :
                    \A k \in 1..Len(rs) : rs[k].a \in {1, MaxVal}}

\* the staging side of the service: reads landing and local edits
NextStage ==
    \/ StoreEmit
    \/ read("q1", "all")
    \/ \E q \in readsInFlight : \E rs \in StageAnswers : ReadSuccess(q, rs)
    \/ \E r \in CommitPosts : postResource(r)
    \/ \E t \in Types, i \in Ids, p \in StagePartials : patchResource(t, i, p)
    \/ \E t \in Types, i \in Ids : deleteResource(t, i)

SpecStage == Init /\ [][NextStage]_vars

\* the commit side of the service: local edits, commits and their answers
NextCommit ==
    \/ StoreEmit
    \/ \E r \in CommitPosts : postResource(r)
    \/ \E t \in Types, i \in Ids, p \in CommitPartials : patchResource(t, i, p)
    \/ \E t \in Types, i \in Ids : deleteResource(t, i)
    \/ commit
    \/ CommitSuccess
    \/ CommitPartialFailure
    \/ CommitTransportFailure

SpecCommit == Init /\ [][NextCommit]_vars

\* what the remote answers the reads of the pending-record run with
PendingAnswers == {rs \in ReadAnswers("all") :
                     Len(rs) <= 1 /\ \A k \in 1..Len(rs) : rs[k].a = 1}

\* the ways a consumer reaches the store around a commit: one query handle,
\* its read, eviction, creating and deleting resources, commits and their
\* answers
NextPending ==
    \/ StoreEmit
    \/ findMany("h1", "q1", "all")
    \/ unsubscribe("h1")
    \/ \E q \in readsInFlight : \E rs \in PendingAnswers : ReadSuccess(q, rs)
    \/ \E t \in Types, i \in Ids : deleteFromState(t, i)
    \/ \E r \in CommitPosts : postResource(r)
    \/ \E t \in Types, i \in Ids : deleteResource(t, i)
    \/ commit
    \/ CommitSuccess
    \/ CommitPartialFailure
    \/ CommitTransportFailure

SpecPending == Init /\ [][NextPending]_vars

\* ---------------------------------------------------------------------------
\* Properties
\* ---------------------------------------------------------------------------
Snapshot(identifier) == getResourceSnapshot(storeSnapshot, identifier)
PersistedSnapshot(identifier) == getPersistedResourceSnapshot(storeSnapshot, identifier)

\* C1: every emission of a findOne handle's results stream is the single
\* resource of the query's result list, null when the list is empty, and the
\* error "Unique result expected" when the list has several resources; one of
\* several matching resources is never delivered.
FindOneUniqueResult ==
    \A h \in Handles :
        (handles[h].kind = "findOne" /\ emitted[h] # NoEmission) =>
            LET it == selectResults(Store, handles[h].queryId) IN
            /\ Len(it) = 0 => emitted[h] = Value(Null)
            /\ Len(it) = 1 => emitted[h] = Value(it[1])
            /\ Len(it) > 1 => emitted[h] = Error("Unique result expected")

\* a findOne stream has just failed on a result list of two resources
FindOneAmbiguousReached ==
    \E h \in Handles :
        /\ handles[h].kind = "findOne"
        /\ emitted[h].kind = "error"
        /\ Len(selectResults(Store, handles[h].queryId)) = 2

\* C2: once a handle's unsubscribe has been called, its results stream
\* delivers nothing more.
NoDeliveryAfterUnsubscribe ==
    \A h \in Handles : handles[h].unsubscribed > 0 => emitted[h] = NoEmission

\* C3: an unsubscribe on a query id that is already removed leaves the
\* resources, the pending records and the registered queries as they were.
RemoveQueryIdempotent ==
    [][(/\ lastOp'.op = "unsubscribe"
        /\ queries[handles[lastOp'.arg].queryId] = NoQuery)
          => (data' = data /\ pending' = pending /\ queries' = queries)]_vars

\* a handle's unsubscribe was just called a second time while the other
\* handle's query, under another id, is registered
SecondUnsubscribeReached ==
    /\ lastOp.op = "unsubscribe"
    /\ handles[lastOp.arg].unsubscribed = 2
    /\ \E g \in Handles :
          /\ handles[g].status = "live"
          /\ handles[g].queryId # handles[lastOp.arg].queryId
          /\ queries[handles[g].queryId] # NoQuery
          /\ Bucket(data, "article") # <<>>

\* C4: the snapshot getters never throw, whatever the identifier and whatever
\* the state of the service.
SnapshotGettersTotal ==
    \A identifier \in Identifiers :
        /\ Snapshot(identifier) # TypeError
        /\ PersistedSnapshot(identifier) # TypeError

\* C5: while only read results have landed in the store (no local edit), the
\* current snapshot of every identifier equals its persisted snapshot.
CurrentEqualsPersistedAfterReads ==
    \A identifier \in Identifiers :
        Snapshot(identifier) = PersistedSnapshot(identifier)

\* a read result has just replaced a resource that an earlier read had stored
ReadReplacedReached ==
    /\ lastOp.op = "readSuccess"
    /\ \E identifier \in Identifiers :
          /\ Snapshot(identifier) \in Resources
          /\ Snapshot(identifier).a = MaxVal
    /\ \E identifier \in Identifiers :
          /\ Snapshot(identifier) \in Resources
          /\ Snapshot(identifier).a = 1

CurrentOf(d, t, i) == IF HasEntry(d, t, i) THEN EntryOf(d, t, i).resource ELSE Null
PersistedOf(d, t, i) ==
    IF HasEntry(d, t, i) THEN EntryOf(d, t, i).persistedResource ELSE Null
RecordsOf(p, t, i) == {k \in 1..Len(p) : p[k].type = t /\ p[k].id = i}

\* C6: there is at most one pending record per identifier; a patch staged on
\* an identifier with a pending create or patch is merged into that record,
\* which keeps its kind and gains the patched fields; a delete staged on an
\* identifier with a pending create or patch leaves no create or patch record
\* for it, and a delete record when the resource is a persisted one.
PendingMergeRules ==
    [][/\ \A t \in Types, i \in Ids : Cardinality(RecordsOf(pending', t, i)) <= 1
       /\ lastOp'.op = "patchResource" =>
            LET t == lastOp'.arg[1]
                i == lastOp'.arg[2]
                partial == lastOp'.arg[3]
            IN  (HasPending(pending, t, i)
                   /\ PendingOf(pending, t, i).kind \in {"Create", "Patch"}) =>
                  LET old == PendingOf(pending, t, i)
                      new == PendingOf(pending', t, i)
                  IN  /\ HasPending(pending', t, i)
                      /\ new.kind = old.kind
                      /\ DOMAIN new.body = (DOMAIN old.body) \cup (DOMAIN partial)
                      /\ \A f \in DOMAIN new.body :
                            new.body[f] = IF f \in DOMAIN partial
                                          THEN partial[f] ELSE old.body[f]
       /\ lastOp'.op = "deleteResource" =>
            LET t == lastOp'.arg[1]
                i == lastOp'.arg[2]
            IN  (HasPending(pending, t, i)
                   /\ PendingOf(pending, t, i).kind \in {"Create", "Patch"}) =>
                  /\ \A k \in RecordsOf(pending', t, i) : pending'[k].kind = "Delete"
                  /\ PersistedOf(data, t, i) # Null => HasPending(pending', t, i)
      ]_vars

\* a patch has just been merged into a pending patch of another field, while
\* the other identifier has a pending record of its own
PatchMergedReached ==
    /\ lastOp.op = "patchResource"
    /\ Len(pending) = 2
    /\ HasPending(pending, lastOp.arg[1], lastOp.arg[2])
    /\ PendingOf(pending, lastOp.arg[1], lastOp.arg[2]).kind = "Patch"
    /\ DOMAIN PendingOf(pending, lastOp.arg[1], lastOp.arg[2]).body = Fields

PartialFailurePromotesSucceeded ==
    [][lastOp'.op = "commitResponse" =>
         \A k \in 1..Len(inflight) :
            LET t == inflight[k].type
                i == inflight[k].id
            IN  IF <<t, i>> \in lastOp'.arg
                THEN /\ ~HasPending(pending', t, i)
                     /\ PersistedOf(data', t, i) = CurrentOf(data', t, i)
                     /\ inflight[k].kind = "Delete" => ~HasEntry(data', t, i)
                     /\ inflight[k].kind # "Delete" =>
                            CurrentOf(data', t, i) = CurrentOf(data, t, i)
                ELSE /\ <<t, i>> \in lastOp'.failed
                     /\ CurrentOf(data', t, i) = CurrentOf(data, t, i)
                     /\ PersistedOf(data', t, i) = PersistedOf(data, t, i)
                     /\ HasPending(pending', t, i) = HasPending(pending, t, i)
                     /\ HasPending(pending, t, i) =>
                            PendingOf(pending', t, i) = PendingOf(pending, t, i)
      ]_vars

\* a batch of two was just answered with one success and one failure
PartialFailureReached ==
    /\ lastOp.op = "commitResponse"
    /\ lastOp.error = "RemoteOperationError"
    /\ \E x \in lastOp.arg, y \in lastOp.failed :
          /\ ~HasPending(pending, x[1], x[2])
          /\ HasEntry(data, x[1], x[2])
          /\ PersistedOf(data, x[1], x[2]) = CurrentOf(data, x[1], x[2])
          /\ HasPending(pending, y[1], y[2])
          /\ PersistedOf(data, y[1], y[2]) # CurrentOf(data, y[1], y[2])

\* C9: a commit that fails as a whole promotes nothing: neither calling
\* commit nor the transport failure changes a resource or a pending record,
\* the failure is surfaced as a TransportError, and the next commit sends the
\* pending records again.
TotalFailureKeepsPending ==
    [][/\ lastOp'.op = "commit" =>
            /\ data' = data /\ pending' = pending
            /\ lastOp'.arg = "sent" => inflight' = pending
       /\ lastOp'.op = "commitTransportFailure" =>
            /\ data' = data /\ pending' = pending
            /\ lastOp'.error = "TransportError"
            /\ inflight' \in {<<>>, pending}
      ]_vars

\* a transport failure has just been answered and the records it carried are
\* still pending, with nothing at the remote
TotalFailureReached ==
    /\ lastOp.op = "commitTransportFailure"
    /\ Len(pending) = 2
    /\ inflight = <<>>

\* C10: postResource(R) makes R the current state with a pending create of
\* R, and a success for that create, the record still being as it was sent,
\* ends with current = persisted = R and no pending record.
PostCommitRoundTrip ==
    [][/\ lastOp'.op = "postResource" =>
            LET r == lastOp'.arg IN
            /\ CurrentOf(data', r.type, r.id) = r
            /\ PersistedOf(data', r.type, r.id) = PersistedOf(data, r.type, r.id)
            /\ HasPending(pending', r.type, r.id)
            /\ PendingOf(pending', r.type, r.id) =
                   PendingRecord("Create", r.type, r.id, Attrs(r))
       /\ lastOp'.op = "commitResponse" =>
            \A k \in 1..Len(inflight) :
               LET t == inflight[k].type
                   i == inflight[k].id
                   R == Resource(t, i, inflight[k].body["a"], inflight[k].body["b"])
               IN  (/\ inflight[k].kind = "Create"
                    /\ <<t, i>> \in lastOp'.arg
                    /\ HasPending(pending, t, i)
                    /\ PendingOf(pending, t, i) = inflight[k]) =>
                     /\ CurrentOf(data', t, i) = R
                     /\ PersistedOf(data', t, i) = R
                     /\ ~HasPending(pending', t, i)
      ]_vars

\* a posted resource was just acknowledged: it is persisted as posted
RoundTripReached ==
    /\ lastOp.op = "commitResponse"
    /\ \E x \in lastOp.arg :
          /\ CurrentOf(data, x[1], x[2]) \in CommitPosts
          /\ PersistedOf(data, x[1], x[2]) = CurrentOf(data, x[1], x[2])
          /\ ~HasPending(pending, x[1], x[2])

\* C11: a commit() called while a batch is outstanding starts no second
\* batch (it leaves the batch at the remote as it is), and a pending record
\* is cleared by an acknowledgment only if it is the record that was sent:
\* an edit staged while the batch was in flight is never cleared unsent.
CommitNotReentrant ==
    [][/\ (lastOp'.op = "commit" /\ inflight # <<>>) => inflight' = inflight
       /\ lastOp'.op = "commitResponse" =>
            \A k \in 1..Len(inflight) :
               LET t == inflight[k].type
                   i == inflight[k].id
               IN  (<<t, i>> \in lastOp'.arg /\ HasPending(pending, t, i)) =>
                      PendingOf(pending, t, i) = inflight[k]
      ]_vars

\* C12: patchResource, postResource and deleteResource leave the persisted
\* state of every identifier and the registered queries as they were, and
\* send nothing to the remote: no batch and no read request starts with them.
LocalEditsFrame ==
    [][lastOp'.op \in {"postResource", "patchResource", "deleteResource"} =>
         /\ \A t \in Types, i \in Ids :
               PersistedOf(data', t, i) = PersistedOf(data, t, i)
         /\ queries' = queries
         /\ inflight' = inflight
         /\ commitQueued' = commitQueued
         /\ readsInFlight' = readsInFlight
      ]_vars

\* a persisted resource was just patched: its current state differs from its
\* persisted state, its record is pending and nothing is at the remote
LocalEditStagedReached ==
    /\ lastOp.op = "patchResource"
    /\ PersistedOf(data, lastOp.arg[1], lastOp.arg[2]) # Null
    /\ CurrentOf(data, lastOp.arg[1], lastOp.arg[2]) #
           PersistedOf(data, lastOp.arg[1], lastOp.arg[2])
    /\ HasPending(pending, lastOp.arg[1], lastOp.arg[2])
    /\ inflight = <<>>

\* the resource with id x comes before the one with id y in the sequence s
Before(s, x, y) ==
    \E k, l \in 1..Len(s) : k < l /\ s[k].id = x /\ s[l].id = y

CommitNoPendingNoOp ==
    [][/\ (lastOp'.op = "commit" /\ pending = <<>>) =>
            /\ data' = data /\ pending' = pending /\ queries' = queries
            /\ inflight' = inflight
            /\ lastOp'.error = "none"
       /\ (lastOp'.op \in {"commitResponse", "commitTransportFailure"}
             /\ pending' = <<>>) => inflight' = <<>>
      ]_vars

\* commit() was just called on a store that holds a resource and has no
\* pending record and no batch at the remote
CommitNoOpReached ==
    /\ lastOp.op = "commit"
    /\ lastOp.arg = "noop"
    /\ Bucket(data, "article") # <<>>
    /\ pending = <<>>
    /\ inflight = <<>>

\* C15: a read result landing changes no pending record; for an identifier
\* with a pending local edit it leaves the current state as staged (only the
\* persisted state may be replaced), and for an identifier without one the
\* current state is the persisted state afterwards.
ReadKeepsLocalEdits ==
    [][lastOp'.op = "readSuccess" =>
         /\ pending' = pending
         /\ \A t \in Types, i \in Ids :
               IF HasPending(pending, t, i)
               THEN CurrentOf(data', t, i) = CurrentOf(data, t, i)
               ELSE CurrentOf(data', t, i) = PersistedOf(data', t, i)
      ]_vars

\* a read result has just replaced the persisted state of a resource that
\* was patched locally: its current state still has the attribute it was
\* read with first, next to the patched one
ReadUnderPatchReached ==
    /\ lastOp.op = "readSuccess"
    /\ \E t \in Types, i \in Ids :
          /\ HasPending(pending, t, i)
          /\ PendingOf(pending, t, i).kind = "Patch"
          /\ DOMAIN PendingOf(pending, t, i).body = {"b"}
          /\ PersistedOf(data, t, i) = Resource(t, i, MaxVal, MaxVal)
          /\ CurrentOf(data, t, i) = Resource(t, i, 1, MaxVal)

\* C16: the persisted state of an identifier changes only in the step in
\* which the remote's answer acknowledges that identifier, the identifier
\* being in the batch that was sent; and no step of a commit (the call, the
\* answer, the transport failure) clears the pending record of an identifier
\* that the answer does not acknowledge.
PromotionAfterAcknowledgment ==
    [][\A t \in Types, i \in Ids :
         LET acknowledged == /\ lastOp'.op = "commitResponse"
                             /\ <<t, i>> \in lastOp'.arg
                             /\ <<t, i>> \in BatchIds(inflight)
         IN  /\ PersistedOf(data', t, i) # PersistedOf(data, t, i) => acknowledged
             /\ (/\ lastOp'.op \in {"commit", "commitResponse", "commitTransportFailure"}
                  /\ HasPending(pending, t, i)
                  /\ ~HasPending(pending', t, i)) => acknowledged
      ]_vars

\* the answer to a batch has just promoted one identifier, and the queued
\* batch that is now at the remote carries another one, which is still
\* pending and not promoted
PromotedAfterAckReached ==
    /\ lastOp.op = "commitResponse"
    /\ lastOp.error = "none"
    /\ \E x \in lastOp.arg :
          /\ HasEntry(data, x[1], x[2])
          /\ PersistedOf(data, x[1], x[2]) = CurrentOf(data, x[1], x[2])
          /\ ~HasPending(pending, x[1], x[2])
    /\ \E y \in BatchIds(inflight) :
          /\ y \notin lastOp.arg
          /\ HasPending(pending, y[1], y[2])
          /\ PersistedOf(data, y[1], y[2]) # CurrentOf(data, y[1], y[2])

\* C17: calling unsubscribe on one handle leaves the registry entry of every
\* other live handle in place, also when both handles were obtained with the
\* same query id, so that the other handle keeps receiving results.
QueriesIndependent ==
    [][lastOp'.op = "unsubscribe" =>
         \A g \in Handles \ {lastOp'.arg} :
            (/\ handles[g].status = "live"
             /\ handles[g].unsubscribed = 0
             /\ queries[handles[g].queryId] # NoQuery) =>
               queries'[handles[g].queryId] = queries[handles[g].queryId]
      ]_vars

\* the step op stages an edit on the identifier (t, i)
StagedOn(op, t, i) ==
    \/ op.op = "postResource" /\ op.arg.type = t /\ op.arg.id = i
    \/ op.op \in {"patchResource", "deleteResource"} /\ op.arg[1] = t /\ op.arg[2] = i

DraftHasNoPersisted ==
    [][/\ \A t \in Types, i \in Ids :
            /\ HasEntry(data', t, i) => CurrentOf(data', t, i) \in Resources
            /\ (/\ HasEntry(data, t, i) /\ PersistedOf(data, t, i) = Null
                 /\ HasEntry(data', t, i)
                 /\ ~(lastOp'.op = "commitResponse" /\ <<t, i>> \in lastOp'.arg)) =>
                   /\ PersistedOf(data', t, i) = Null
                   /\ HasPending(pending', t, i)
                   /\ PendingOf(pending', t, i).kind = "Create"
                   /\ getResourceSnapshot(storeSnapshot', [type |-> t, id |-> i])
                         = CurrentOf(data', t, i)
                   /\ getPersistedResourceSnapshot(storeSnapshot', [type |-> t, id |-> i])
                         = Null
       /\ lastOp'.op = "postResource" =>
            LET r == lastOp'.arg
                identifier == [type |-> r.type, id |-> r.id]
            IN  ~HasEntry(data, r.type, r.id) =>
                  /\ CurrentOf(data', r.type, r.id) = r
                  /\ PersistedOf(data', r.type, r.id) = Null
                  /\ getResourceSnapshot(storeSnapshot', identifier) = r
                  /\ getPersistedResourceSnapshot(storeSnapshot', identifier) = Null
      ]_vars

\* a resource was just posted next to a committed one: the getters return
\* the draft and no persisted resource for it
DraftReached ==
    /\ lastOp.op = "postResource"
    /\ Snapshot([type |-> lastOp.arg.type, id |-> lastOp.arg.id]) = lastOp.arg
    /\ PersistedSnapshot([type |-> lastOp.arg.type, id |-> lastOp.arg.id]) = Null
    /\ \E t \in Types, i \in Ids : PersistedOf(data, t, i) # Null

====
